---- MODULE Spec2Model ----
(***************************************************************************)
(* The ESP32 energy monitor / SCADA gateway firmware (setup(), loop() and  *)
(* the functions loop() calls) as a state machine.                         *)
(*                                                                         *)
(* Units of the fixed-point quantities that stand for the firmware's       *)
(* float/double values:                                                    *)
(*   currents (rawCurrent, noiseFloor, calibrationSum, current_rms)  mA    *)
(*   ac_power_kw                                                     mW    *)
(*   accumulated_energy, total_energy_kwh            micro-kWh (1e-6 kWh)  *)
(*   grid_frequency 0.01 Hz, power_factor 0.001, ambient_temp 0.1 C,       *)
(*   irradiance W/m2, efficiency 0.001, voltage V, all times ms            *)
(* Divisions round toward zero at that resolution.                         *)
(***************************************************************************)
EXTENDS Integers, FiniteSets, TLC

VARIABLES
    now,                  \* millis()
    pc,                   \* position inside loop()
    calibrated, calibrationStart, calibrationReadings, calibrationSum, noiseFloor,
    scadaData,            \* struct SCADAData
    accumulated_energy, last_energy_update, last_scada_update, lastSendTime,
    hreg, coil, ists,     \* mbServer's holding registers, coils, discrete inputs
    rawCurrent,           \* loop()'s local rawCurrent of the latest fast tick
    failedReads,          \* history: consecutive fast ticks whose sensor read was unavailable
    slowTicks,            \* history: number of slow ticks run so far
    writtenBy,            \* history: per address, the slow tick that wrote it last
    lastData,             \* history: latest GET /scada/data response since the latest slow tick
    out                   \* history: what the latest step sent to a client or the collector

vars == <<now, pc, calibrated, calibrationStart, calibrationReadings, calibrationSum,
          noiseFloor, scadaData, accumulated_energy, last_energy_update,
          last_scada_update, lastSendTime, hreg, coil, ists, rawCurrent,
          failedReads, slowTicks, writtenBy, lastData, out>>

calibVars == <<calibrated, calibrationStart, calibrationReadings, calibrationSum, noiseFloor>>
regVars == <<hreg, coil, ists, writtenBy>>
tickVars == <<last_energy_update, last_scada_update, lastSendTime>>
histVars == <<rawCurrent, failedReads, slowTicks>>

(***************************************************************************)
(* Bounds of the model.                                                    *)
(***************************************************************************)
\* millis() when setup() stores calibrationStart
BootMs == 3000
\* the model stops advancing the clock here
MaxTime == 137000

\* duration of one calibration iteration (calcIrms, LCD, delay(200))
CalIterMs == {59000, 60000}
\* duration of a loop() pass that runs no fast tick
PassMs == {500, 1000}
\* duration of a fast tick (100 x delay(2), calcIrms, POST)
FastMs == {500}
\* raw RMS readings of emon1.calcIrms during calibration
CalSamples == {40, 50}
\* raw RMS readings of emon1.calcIrms after calibration
RawSamples == {45, 50, 5455}
\* what emon1.calcIrms returns while the analog input is unavailable
DeadSamples == {0}
\* consecutive unavailable reads after which a FAULT is due
FaultAfter == 2

(***************************************************************************)
(* Program constants.                                                      *)
(***************************************************************************)
sendInterval == 1000
gridVoltage == 220
CalibrationWindow == 120000
ScadaInterval == 5000
SetupDelay == 2000
WiFiPollMs == 500
ReadyDelay == 2000
CurrentThreshold == 10
WattsThreshold == 1000

HregAddrs == 30001..30010
BitAddrs == 1..8
\* the addresses updateModbusRegisters writes
Written == ({"H"} \X HregAddrs) \cup ({"C"} \X (1..4)) \cup ({"I"} \X (1..4))
AllAddrs == ({"H"} \X HregAddrs) \cup ({"C"} \X BitAddrs) \cup ({"I"} \X BitAddrs)

\* unsigned long subtraction a - b
\* The millisecond counter and the timestamps taken from it are unsigned 32-bit
\* values, held here by their signed reading (v - 2^32 for v >= 2^31), so that the
\* counter runs ... -2, -1, 0, 1 ... through its wrap-around.  a - b of two such
\* values, modulo 2^32, is their plain difference when that is not negative; a
\* negative difference stands for one of at least 2^31 ms, held as Int32Max.
Int32Max == 2147483647
Elapsed(a, b) == IF a - b >= 0 THEN a - b ELSE Int32Max

\* 2^32 divided by k, quotient and remainder, from 2^32 = 2 * Int32Max + 2
Quot32(k) == (Int32Max \div k) * 2 + ((Int32Max % k) * 2 + 2) \div k
Rem32(k) == ((Int32Max % k) * 2 + 2) % k

\* millis() / k for the counter value held as t
MillisDiv(t, k) == IF t >= 0 THEN t \div k ELSE Quot32(k) + (Rem32(k) + t) \div k

\* random(lo, hi): lo .. hi-1
Random(lo, hi) == lo..(hi - 1)
\* variant: every draw ten times as wide
M_Draw_Wide(lo, hi, e) == IF e = "lo" THEN 10 * lo ELSE 10 * (hi - 1)

\* the draws the model explores: an end of the range, selected by e
Draw(lo, hi, e) == IF e = "lo" THEN lo ELSE hi - 1
\* which end each of the five random() calls of a slow tick returns
Jitters == {<<"lo", "lo", "lo", "lo", "lo">>, <<"hi", "hi", "hi", "hi", "hi">>}


(***************************************************************************)
(* Pure computations of loop() and its helpers.                            *)
(***************************************************************************)
\* variant: only negative differences are zeroed, max(0, .)
M_ClampCurrent_NegOnly(irms) == IF irms < 0 THEN 0 ELSE irms

\* variant: the threshold itself is zeroed too, <=
M_ClampCurrent_Inclusive(irms) == IF irms <= CurrentThreshold THEN 0 ELSE irms

\* if (Irms < 0.01) Irms = 0.0;
ClampCurrent(irms) == IF irms < CurrentThreshold THEN 0 ELSE irms

\* variant: a 5 W threshold
M_ClampWatts_Five(watts) == IF watts < 5000 THEN 0 ELSE watts

\* if (watts < 1.0) watts = 0.0;
ClampWatts(watts) == IF watts < WattsThreshold THEN 0 ELSE watts

\* variant: the timestamps subtracted the wrong way round
M_EnergyDelta_Reversed(power, elapsed) ==
    0 - (((power \div 1000) * elapsed + (((power % 1000) * elapsed) \div 1000)) \div 3600)

\* variant: the elapsed time divided by 60000 (minutes) instead of 3600000
M_EnergyDelta_Minutes(power, elapsed) ==
    ((power \div 1000) * elapsed + (((power % 1000) * elapsed) \div 1000)) \div 60

\* scadaData.ac_power_kw * ((millis() - last_energy_update) / 3600000.0), in
\* micro-kWh: power[mW] * elapsed[ms] / 3600000, rounded toward zero.  The product
\* is split so that every intermediate value stays below 2^31.
EnergyDelta(power, elapsed) ==
    ((power \div 1000) * elapsed + (((power % 1000) * elapsed) \div 1000)) \div 3600

\* if (last_energy_update > 0)
HasPreviousUpdate(last) == last # 0

\* 1200 * sin(PI * (hour - 6) / 12) for a second-of-day in 21600..64800, by
\* Bhaskara's rational approximation of the sine (error below 2 W/m2), with
\* m the minutes since 06:00 and p = m * (720 - m):  4800 p / (648000 - p).
SineArc(secOfDay) ==
    LET m == (secOfDay - 21600) \div 60
        p == m * (720 - m)
    IN  (4800 * p) \div (648000 - p)

Max(a, b) == IF a >= b THEN a ELSE b

\* variant: without the night branch
M_simulateIrradiance_NoNight(t, jitter) ==
    LET time_of_day == (MillisDiv(t, 1000) + 8 * 3600) % 86400
    IN  Max(0, SineArc(time_of_day) + jitter)

\* simulateIrradiance() at millis() = t with random(-100, 100) = jitter
simulateIrradiance(t, jitter) ==
    LET time_of_day == (MillisDiv(t, 1000) + 8 * 3600) % 86400
    IN  IF time_of_day < 6 * 3600 \/ time_of_day > 18 * 3600
        THEN 0
        ELSE Max(0, SineArc(time_of_day) + jitter)

\* (uint16_t)x for a non-negative float x already truncated to an integer.  Out of
\* range the conversion is undefined: ub selects what the build makes of it,
\* wrapping modulo 2^16 or saturating.
Cast16(x, ub) ==
    IF x >= 0 /\ x <= 65535 THEN x
    ELSE IF ub = "wrap" THEN x % 65536 ELSE 65535

UBOutcomes == {"wrap", "saturate"}

\* the ten mbServer.Hreg(...) calls of updateModbusRegisters
HregValues(d, ub) ==
    [a \in HregAddrs |->
        CASE a = 30001 -> Cast16(d.ac_power_kw \div 1000, ub)
          [] a = 30002 -> Cast16(d.total_energy_kwh \div 10000, ub)
          [] a = 30003 -> Cast16(d.grid_frequency, ub)
          [] a = 30004 -> Cast16(d.current_rms, ub)
          [] a = 30005 -> Cast16(d.voltage, ub)
          [] a = 30006 -> Cast16(d.power_factor, ub)
          [] a = 30007 -> Cast16(d.ambient_temp, ub)
          [] a = 30008 -> Cast16(d.irradiance, ub)
          [] a = 30009 -> Cast16(d.efficiency, ub)
          [] a = 30010 -> Cast16(d.system_status, ub)]

\* variant: "generating" as soon as any power is reported
M_CoilValues_AnyPower(d) ==
    [a \in 1..4 |->
        CASE a = 1 -> d.system_status = 1
          [] a = 2 -> d.ac_power_kw > 0
          [] a = 3 -> d.irradiance > 100
          [] a = 4 -> d.grid_frequency > 4950 /\ d.grid_frequency < 5050]

\* the four mbServer.Coil(...) calls
CoilValues(d) ==
    [a \in 1..4 |->
        CASE a = 1 -> d.system_status = 1
          [] a = 2 -> d.ac_power_kw > 100000
          [] a = 3 -> d.irradiance > 100
          [] a = 4 -> d.grid_frequency > 4950 /\ d.grid_frequency < 5050]

\* variant: the high-temperature alarm set at 30 C
M_IstsValues_Warm(d) ==
    [a \in 1..4 |->
        CASE a = 1 -> d.ambient_temp > 300
          [] a = 2 -> d.power_factor < 900
          [] a = 3 -> d.efficiency < 900
          [] a = 4 -> FALSE]

\* the four mbServer.Ists(...) calls
IstsValues(d) ==
    [a \in 1..4 |->
        CASE a = 1 -> d.ambient_temp > 400
          [] a = 2 -> d.power_factor < 900
          [] a = 3 -> d.efficiency < 900
          [] a = 4 -> FALSE]

\* SCADAData scadaData = {0};
ZeroData ==
    [current_rms |-> 0, voltage |-> 0, ac_power_kw |-> 0, total_energy_kwh |-> 0,
     grid_frequency |-> 0, power_factor |-> 0, ambient_temp |-> 0, irradiance |-> 0,
     system_status |-> 0, efficiency |-> 0, timestamp |-> 0]

NoData == [epoch |-> -1, body |-> ZeroData]
NoOutput == [kind |-> "none"]


NoSample == -1
Routes == {"none", "/scada/data", "/scada/guardian", "/", "/unknown"}
PostOutcomes == {"ok", "error", "nowifi"}

(***************************************************************************)
(* The state in which setup() has called WiFi.begin and enters its wait    *)
(* loop, one poll before the time by which a network that is there has     *)
(* been joined.                                                            *)
(***************************************************************************)
Init ==
    /\ now = BootMs - WiFiPollMs
    /\ pc = "setup"
    /\ calibrated = FALSE
    /\ calibrationStart = 0
    /\ calibrationReadings = 0
    /\ calibrationSum = 0
    /\ noiseFloor = 0
    /\ scadaData = ZeroData
    /\ accumulated_energy = 0
    /\ last_energy_update = 0
    /\ last_scada_update = 0
    /\ lastSendTime = 0
    /\ hreg = [a \in HregAddrs |-> 0]
    /\ coil = [a \in BitAddrs |-> FALSE]
    /\ ists = [a \in BitAddrs |-> FALSE]
    /\ rawCurrent = NoSample
    /\ failedReads = 0
    /\ slowTicks = 0
    /\ writtenBy = [a \in AllAddrs |-> 0]
    /\ lastData = NoData
    /\ out = NoOutput

(***************************************************************************)
(* setup(), lines 129-132: while (WiFi.status() != WL_CONNECTED)           *)
(* delay(500).  WiFi.status() is the environment's: a network that is      *)
(* there is joined by BootMs, one that is not there never is.              *)
(***************************************************************************)
SetupWait ==
    /\ pc = "setup"
    /\ now + WiFiPollMs <= MaxTime
    /\ now' = now + WiFiPollMs
    /\ UNCHANGED <<pc, calibVars, scadaData, accumulated_energy, tickVars, regVars,
                   histVars, lastData, out>>

\* the rest of setup(): the register table is declared with zeros, the servers
\* are started, calibrationStart = millis(); delay(2000)
SetupDone ==
    /\ pc = "setup"
    /\ now = BootMs
    /\ calibrationStart' = now
    /\ now' = now + SetupDelay
    /\ pc' = "loop"
    /\ hreg' = [a \in HregAddrs |-> 0]
    /\ coil' = [a \in BitAddrs |-> FALSE]
    /\ ists' = [a \in BitAddrs |-> FALSE]
    /\ UNCHANGED <<calibrated, calibrationReadings, calibrationSum, noiseFloor, scadaData,
                   accumulated_energy, tickVars, writtenBy, histVars, lastData, out>>

(***************************************************************************)
(* loop(), first branch: one calibration sample, then return.              *)
(***************************************************************************)
\* variant: a 60 s window
M_InCalibrationWindow_Short == ~calibrated /\ Elapsed(now, calibrationStart) < 60000

InCalibrationWindow == ~calibrated /\ Elapsed(now, calibrationStart) < CalibrationWindow

CalibrationSample ==
    /\ pc = "loop"
    /\ InCalibrationWindow
    /\ \E raw \in CalSamples, d \in CalIterMs :
          /\ now + d <= MaxTime
          /\ calibrationSum' = calibrationSum + raw
          /\ calibrationReadings' = calibrationReadings + 1
          /\ now' = now + d
    /\ UNCHANGED <<pc, calibrated, calibrationStart, noiseFloor, scadaData,
                   accumulated_energy, tickVars, regVars, histVars,
                   lastData, out>>

(***************************************************************************)
(* loop(), second branch: the window is over, fix the noise floor and fall *)
(* through to the servers.                                                 *)
(***************************************************************************)
FinishCalibration ==
    /\ pc = "loop"
    /\ ~calibrated
    /\ ~InCalibrationWindow
    /\ now + ReadyDelay <= MaxTime
    /\ noiseFloor' = calibrationSum \div calibrationReadings
    /\ calibrated' = TRUE
    /\ now' = now + ReadyDelay
    /\ UNCHANGED <<pc, calibrationStart, calibrationReadings, calibrationSum, scadaData,
                   accumulated_energy, tickVars, regVars, histVars,
                   lastData, out>>

(***************************************************************************)
(* mbServer.task(): serve the register read that is pending, if any.       *)
(***************************************************************************)
\* variant: the servers are polled at the top of loop(), before the calibration branch
M_ServersReached_Always == pc = "loop"

\* loop() gets to line 198 only once the calibration branches are behind it
ServersReached == pc = "loop" /\ calibrated

\* what serving a request leaves alone: the handlers only read
M_ServeFrame_Stamps ==
    /\ scadaData' = [scadaData EXCEPT !.timestamp = now + 1]
    /\ UNCHANGED <<now, calibVars, accumulated_energy, tickVars, regVars, histVars>>

ServeFrame ==
    UNCHANGED <<now, calibVars, scadaData, accumulated_energy, tickVars, regVars, histVars>>

ModbusTask ==
    /\ ServersReached
    /\ \E req \in {"none", "read"} :
          out' = IF req = "read"
                 THEN [kind |-> "modbus", hreg |-> hreg, coil |-> coil, ists |-> ists,
                       writers |-> {writtenBy[a] : a \in Written}]
                 ELSE NoOutput
    /\ pc' = "http"
    /\ ServeFrame
    /\ UNCHANGED lastData

(***************************************************************************)
(* scadaServer.handleClient(): serve the HTTP request that is pending.     *)
(***************************************************************************)
\* x * num / den for x >= 0, rounded toward zero, the product split so that it
\* stays below 2^31
Scaled(x, num, den) == (x \div den) * num + ((x % den) * num) \div den

\* variant: the emission factor divides the export instead of multiplying it
M_GuardianReport_FactorInverted(d) ==
    LET export_mwh == Scaled(d.total_energy_kwh, 98, 100)
    IN  [capacity_mw |-> 1,
         gross_generation_mwh |-> d.total_energy_kwh,
         net_export_mwh |-> export_mwh,
         capacity_factor |-> d.ac_power_kw * 10,
         average_irradiance |-> d.irradiance,
         current_rms |-> d.current_rms,
         baseline_emissions_tco2 |-> Scaled(export_mwh, 100, 81),
         project_emissions_tco2 |-> 0,
         emission_reductions_tco2 |-> Scaled(export_mwh, 100, 81)]

\* the JSON document of GET /scada/guardian, lines 316-348: energies in 1e-9 MWh
\* (the unit of total_energy_kwh / 1000), emissions in 1e-9 tCO2, capacity_mw in
\* kW, capacity_factor in 0.01 percent: (ac_power_kw / 0.001) * 100 is
\* power[mW] / 10 percent
GuardianReport(d) ==
    LET export_mwh == Scaled(d.total_energy_kwh, 98, 100)
    IN  [capacity_mw |-> 1,
         gross_generation_mwh |-> d.total_energy_kwh,
         net_export_mwh |-> export_mwh,
         capacity_factor |-> d.ac_power_kw * 10,
         average_irradiance |-> d.irradiance,
         current_rms |-> d.current_rms,
         baseline_emissions_tco2 |-> Scaled(export_mwh, 81, 100),
         project_emissions_tco2 |-> 0,
         emission_reductions_tco2 |-> Scaled(export_mwh, 81, 100)]

\* what scadaServer sends for a route: the handlers of setupSCADAServers
Response(route, d) ==
    CASE route = "/scada/data" ->
            [kind |-> "http", route |-> route, status |-> 200, body |-> d]
      [] route = "/scada/guardian" ->
            [kind |-> "http", route |-> route, status |-> 200, body |-> GuardianReport(d)]
      [] route = "/" ->
            [kind |-> "http", route |-> route, status |-> 200, body |-> [text |-> "html"]]
      [] OTHER ->
            [kind |-> "http", route |-> route, status |-> 404,
             body |-> [text |-> "SCADA Endpoint Not Found"]]

\* variant: the HTTP server is also polled between the two halves of a slow tick
M_HttpReached_MidTick == pc \in {"http", "regs"}

\* loop() line 201, straight after mbServer.task()
HttpReached == pc = "http"

HandleClient ==
    /\ HttpReached
    /\ \E route \in Routes :
          /\ out' = IF route = "none" THEN NoOutput ELSE Response(route, scadaData)
          /\ lastData' = IF route = "/scada/data"
                         THEN [epoch |-> slowTicks, body |-> scadaData]
                         ELSE lastData
    /\ pc' = "slow"
    /\ ServeFrame


(***************************************************************************)
(* Slow tick, first half: updateSCADAData().                               *)
(***************************************************************************)
\* variant: due at 5000 ms sharp
M_SlowDue_Inclusive == Elapsed(now, last_scada_update) >= ScadaInterval

\* variant: no slow tick before the first send
M_SlowDue_AfterFirstSend ==
    Elapsed(now, last_scada_update) > ScadaInterval /\ lastSendTime > 0

SlowDue == Elapsed(now, last_scada_update) > ScadaInterval

\* the accumulator after the energy block of updateSCADAData
Accumulate(acc, power, last, t) ==
    IF HasPreviousUpdate(last) THEN acc + EnergyDelta(power, Elapsed(t, last)) ELSE acc

\* lines 408-413: accumulate, then record the time of this update
M_EnergyBlock_NoStamp ==
    /\ accumulated_energy' =
          Accumulate(accumulated_energy, scadaData.ac_power_kw, last_energy_update, now)
    /\ UNCHANGED last_energy_update

EnergyBlock ==
    /\ accumulated_energy' =
          Accumulate(accumulated_energy, scadaData.ac_power_kw, last_energy_update, now)
    /\ last_energy_update' = now

updateSCADAData ==
    /\ pc = "slow"
    /\ SlowDue
    /\ EnergyBlock
    /\ \E j \in Jitters :
          LET rf == Draw(-10, 10, j[1])
              rp == Draw(-5, 5, j[2])
              rt == Draw(-50, 150, j[3])
              ri == Draw(-100, 100, j[4])
              re == Draw(-20, 20, j[5])
          IN
          scadaData' =
             [scadaData EXCEPT
                !.total_energy_kwh =
                    IF HasPreviousUpdate(last_energy_update)
                    THEN accumulated_energy' ELSE @,
                !.grid_frequency = 5000 + rf,
                !.power_factor = 950 + rp,
                !.ambient_temp = 250 + rt,
                !.irradiance = simulateIrradiance(now, ri),
                !.system_status = 1,
                !.efficiency = 960 + re,
                !.timestamp = now]
    /\ slowTicks' = slowTicks + 1
    /\ pc' = "regs"
    /\ out' = NoOutput
    /\ lastData' = NoData
    /\ UNCHANGED <<now, calibVars, last_scada_update, lastSendTime, regVars, rawCurrent,
                   failedReads>>

SlowSkip ==
    /\ pc = "slow"
    /\ ~SlowDue
    /\ pc' = "fast"
    /\ out' = NoOutput
    /\ UNCHANGED <<now, calibVars, scadaData, accumulated_energy, tickVars, regVars,
                   histVars, lastData>>

(***************************************************************************)
(* Slow tick, second half: updateModbusRegisters(); pollModbusDevices();   *)
(* last_scada_update = millis().                                           *)
(***************************************************************************)
\* variant: returns after the holding registers, leaving coils and discrete inputs
M_updateModbusRegisters_HregOnly ==
    /\ pc = "regs"
    /\ \E ub \in UBOutcomes :
          hreg' = HregValues(scadaData, ub)
    /\ writtenBy' = [a \in AllAddrs |-> IF a[1] = "H" THEN slowTicks ELSE writtenBy[a]]
    /\ last_scada_update' = now
    /\ pc' = "fast"
    /\ out' = NoOutput
    /\ UNCHANGED <<now, calibVars, scadaData, accumulated_energy, last_energy_update,
                   lastSendTime, histVars, lastData, coil, ists>>

updateModbusRegisters ==
    /\ pc = "regs"
    /\ \E ub \in UBOutcomes :
          hreg' = HregValues(scadaData, ub)
    /\ coil' = [a \in BitAddrs |-> IF a \in 1..4 THEN CoilValues(scadaData)[a] ELSE coil[a]]
    /\ ists' = [a \in BitAddrs |-> IF a \in 1..4 THEN IstsValues(scadaData)[a] ELSE ists[a]]
    /\ writtenBy' = [a \in AllAddrs |-> IF a \in Written THEN slowTicks ELSE writtenBy[a]]
    /\ last_scada_update' = now
    /\ pc' = "fast"
    /\ out' = NoOutput
    /\ UNCHANGED <<now, calibVars, scadaData, accumulated_energy, last_energy_update,
                   lastSendTime, histVars, lastData>>

(***************************************************************************)
(* Fast tick: measure, write the measured fields, send the payload.        *)
(***************************************************************************)
FastDue == Elapsed(now, lastSendTime) > sendInterval

\* Irms and watts of a raw reading: lines 223-227
Corrected(raw, floor) == ClampCurrent(raw - floor)
Watts(irms) == ClampWatts(irms * gridVoltage)

\* variant: the fast tick also adds the reading's energy to the total
M_Measured_AddsEnergy(d, raw, floor) ==
    [d EXCEPT !.current_rms = Corrected(raw, floor),
              !.voltage = gridVoltage,
              !.ac_power_kw = Watts(Corrected(raw, floor)),
              !.total_energy_kwh = @ + Watts(Corrected(raw, floor)) \div 3600]

\* lines 233-235: the three fields a fast tick writes
Measured(d, raw, floor) ==
    [d EXCEPT !.current_rms = Corrected(raw, floor),
              !.voltage = gridVoltage,
              !.ac_power_kw = Watts(Corrected(raw, floor))]

\* what a fast tick leaves alone
M_FastFrame_TracksFloor ==
    /\ noiseFloor' = rawCurrent'
    /\ UNCHANGED <<calibrated, calibrationStart, calibrationReadings, calibrationSum,
                   accumulated_energy, last_energy_update, last_scada_update,
                   regVars, slowTicks, lastData>>

FastFrame ==
    UNCHANGED <<calibVars, accumulated_energy, last_energy_update, last_scada_update,
                regVars, slowTicks, lastData>>

\* String(x, n) of a value held in finer units: rounded to the n-th decimal
Rounded(x, unit) == (x + unit \div 2) \div unit

\* the "2025-01-20T%02d:%02d:%02d" clock of lines 260-261
ClockOf(t) ==
    <<MillisDiv(t, 3600000) % 24, MillisDiv(t, 60000) % 60, MillisDiv(t, 1000) % 60>>

\* the JSON document of lines 257-276: current in mA, power in 0.1 W, ac_power_kw in W,
\* total_energy_kwh in Wh, the rest in the units of the snapshot
Payload(d, t) ==
    [timestamp |-> ClockOf(t),
     current |-> d.current_rms,
     voltage |-> gridVoltage,
     power |-> Rounded(d.ac_power_kw, 100),
     ac_power_kw |-> Rounded(d.ac_power_kw, 1000),
     total_energy_kwh |-> Rounded(d.total_energy_kwh, 1000),
     grid_frequency |-> d.grid_frequency,
     power_factor |-> d.power_factor,
     ambient_temp |-> d.ambient_temp,
     irradiance |-> d.irradiance,
     system_status |-> d.system_status,
     efficiency |-> d.efficiency]

\* variant: a send that fails is repeated once
M_PostAttempts_Retry(res) == CASE res = "nowifi" -> 0 [] res = "error" -> 2 [] OTHER -> 1

\* sendData(): http.POST is called once, and only while WiFi is connected
PostAttempts(res) == IF res = "nowifi" THEN 0 ELSE 1

\* variant: lastSendTime is recorded only for a send that succeeded
M_SentAt_OnSuccess(res, last, t) == IF res = "ok" THEN t ELSE last

\* line 279: lastSendTime = millis(), whatever sendData() met
SentAt(res, last, t) == t

\* what emon1.calcIrms can return: there is no error path, a dead input is a reading
Readings(ok) == IF ok THEN RawSamples ELSE DeadSamples

FastTick ==
    /\ pc = "fast"
    /\ FastDue
    /\ \E ok \in BOOLEAN, d \in FastMs, res \in PostOutcomes :
          \E raw \in Readings(ok) :
             /\ now + d <= MaxTime
             /\ rawCurrent' = raw
             /\ failedReads' = IF ok THEN 0
                               ELSE IF failedReads < FaultAfter THEN failedReads + 1
                               ELSE failedReads
             /\ scadaData' = Measured(scadaData, raw, noiseFloor)
             /\ out' = [kind |-> "post", result |-> res, attempts |-> PostAttempts(res),
                        payload |-> Payload(scadaData', now + d)]
             /\ now' = now + d
             /\ lastSendTime' = SentAt(res, lastSendTime, now + d)
    /\ pc' = "loop"
    /\ FastFrame

FastSkip ==
    /\ pc = "fast"
    /\ ~FastDue
    /\ \E d \in PassMs :
          /\ now + d <= MaxTime
          /\ now' = now + d
    /\ out' = NoOutput
    /\ pc' = "loop"
    /\ UNCHANGED <<calibVars, scadaData, accumulated_energy, tickVars, regVars,
                   histVars, lastData>>

Next ==
    \/ SetupWait
    \/ SetupDone
    \/ CalibrationSample
    \/ FinishCalibration
    \/ ModbusTask
    \/ HandleClient
    \/ updateSCADAData
    \/ SlowSkip
    \/ updateModbusRegisters
    \/ FastTick
    \/ FastSkip

Spec == Init /\ [][Next]_vars


(***************************************************************************)
(* updateModbusRegisters() on its own, applied to the snapshots a long run *)
(* leads to: the state is the one between updateSCADAData() and            *)
(* updateModbusRegisters(), after 22 days of uptime, with the measured and *)
(* accumulated fields drawn from the sets below.                           *)
(***************************************************************************)
\* raw readings up to the 16.5 A the 3.3 V input allows at CALIBRATION_FACTOR 10
EncodeRaws == {45, 50, 5495, 16540}
\* accumulated energy, up to and beyond 655.36 kWh
EncodeEnergies ==
    {0, 1667, 9999, 10000, 655349999, 655359999, 655360000, 700000000, 1310720000}

EncodeInit ==
    /\ now = 22 * 24 * 3600 * 1000
    /\ pc = "regs"
    /\ calibrated = TRUE
    /\ calibrationStart = BootMs
    /\ calibrationReadings = 2
    /\ calibrationSum = 80
    /\ noiseFloor = 40
    /\ rawCurrent \in EncodeRaws
    /\ failedReads = 0
    /\ accumulated_energy \in EncodeEnergies
    /\ \E j \in Jitters :
          scadaData =
             [current_rms |-> Corrected(rawCurrent, noiseFloor),
              voltage |-> gridVoltage,
              ac_power_kw |-> Watts(Corrected(rawCurrent, noiseFloor)),
              total_energy_kwh |-> accumulated_energy,
              grid_frequency |-> 5000 + Draw(-10, 10, j[1]),
              power_factor |-> 950 + Draw(-5, 5, j[2]),
              ambient_temp |-> 250 + Draw(-50, 150, j[3]),
              irradiance |-> simulateIrradiance(now, Draw(-100, 100, j[4])),
              system_status |-> 1,
              efficiency |-> 960 + Draw(-20, 20, j[5]),
              timestamp |-> now]
    /\ last_energy_update = now
    /\ last_scada_update = now - 5500
    /\ lastSendTime = now - 500
    /\ hreg = [a \in HregAddrs |-> 0]
    /\ coil = [a \in BitAddrs |-> FALSE]
    /\ ists = [a \in BitAddrs |-> FALSE]
    /\ slowTicks = 2
    /\ writtenBy = [a \in AllAddrs |-> IF a \in Written THEN 1 ELSE 0]
    /\ lastData = NoData
    /\ out = NoOutput

EncodeNext == updateModbusRegisters

EncodeSpec == EncodeInit /\ [][EncodeNext]_vars

(***************************************************************************)
(* updateSCADAData() on its own, applied at uptimes spread over two days:  *)
(* the state is the one of a pass that reaches line 204 with a slow tick   *)
(* due, 5.5 s after the previous one, on a device whose readings have      *)
(* stayed below the noise floor.                                           *)
(***************************************************************************)
\* uptimes in seconds: every half hour of two days, and both sides of 06:00 and 18:00
IrrUptimes == {k * 1800 : k \in 1..96} \cup {36000, 36001, 79199, 79200}

\* the snapshot the previous slow tick left
IrrPrevious(t) ==
    [current_rms |-> 0,
     voltage |-> gridVoltage,
     ac_power_kw |-> 0,
     total_energy_kwh |-> 0,
     grid_frequency |-> 5000 + Draw(-10, 10, "lo"),
     power_factor |-> 950 + Draw(-5, 5, "lo"),
     ambient_temp |-> 250 + Draw(-50, 150, "lo"),
     irradiance |-> simulateIrradiance(t, Draw(-100, 100, "lo")),
     system_status |-> 1,
     efficiency |-> 960 + Draw(-20, 20, "lo"),
     timestamp |-> t]

IrrInit ==
    /\ \E u \in IrrUptimes : now = u * 1000
    /\ pc = "slow"
    /\ calibrated = TRUE
    /\ calibrationStart = BootMs
    /\ calibrationReadings = 2
    /\ calibrationSum = 100
    /\ noiseFloor = 50
    /\ rawCurrent = 45
    /\ failedReads = 0
    /\ accumulated_energy = 0
    /\ scadaData = IrrPrevious(now - 5500)
    /\ last_energy_update = now - 5500
    /\ last_scada_update = now - 5500
    /\ lastSendTime = now - 500
    /\ hreg = HregValues(scadaData, "wrap")
    /\ coil = [a \in BitAddrs |-> IF a \in 1..4 THEN CoilValues(scadaData)[a] ELSE FALSE]
    /\ ists = [a \in BitAddrs |-> IF a \in 1..4 THEN IstsValues(scadaData)[a] ELSE FALSE]
    /\ slowTicks = 1
    /\ writtenBy = [a \in AllAddrs |-> IF a \in Written THEN 1 ELSE 0]
    /\ lastData = NoData
    /\ out = NoOutput

IrrNext == updateSCADAData

IrrSpec == IrrInit /\ [][IrrNext]_vars

(***************************************************************************)
(* The loop of a calibrated device around the wrap-around of millis(),     *)
(* 49.7 days after boot: the state is the one at the top of a pass shortly *)
(* before the counter returns to 0, a slow tick having run 4.5 s or 4.25 s *)
(* earlier and a fast tick having just ended, on a device that has         *)
(* accumulated 5 kWh and reads 5.455 A.                                    *)
(***************************************************************************)
\* counter values at the start, in ms before the wrap-around
WrapStarts == {0 - 1000, 0 - 750}
\* the counter value at which the run is cut off
WrapEnd == 6500

\* the snapshot the previous slow tick left, at counter value t
WrapPrevious(t) ==
    [current_rms |-> Corrected(5455, 40),
     voltage |-> gridVoltage,
     ac_power_kw |-> Watts(Corrected(5455, 40)),
     total_energy_kwh |-> 5000000,
     grid_frequency |-> 5000 + Draw(-10, 10, "lo"),
     power_factor |-> 950 + Draw(-5, 5, "lo"),
     ambient_temp |-> 250 + Draw(-50, 150, "lo"),
     irradiance |-> simulateIrradiance(t, Draw(-100, 100, "lo")),
     system_status |-> 1,
     efficiency |-> 960 + Draw(-20, 20, "lo"),
     timestamp |-> t]

WrapInit ==
    /\ now \in WrapStarts
    /\ pc = "loop"
    /\ calibrated = TRUE
    /\ calibrationStart = BootMs
    /\ calibrationReadings = 2
    /\ calibrationSum = 80
    /\ noiseFloor = 40
    /\ rawCurrent = 5455
    /\ failedReads = 0
    /\ accumulated_energy = 5000000
    /\ scadaData = WrapPrevious(now - 4500)
    /\ last_energy_update = now - 4500
    /\ last_scada_update = now - 4500
    /\ lastSendTime = now
    /\ hreg = HregValues(scadaData, "wrap")
    /\ coil = [a \in BitAddrs |-> IF a \in 1..4 THEN CoilValues(scadaData)[a] ELSE FALSE]
    /\ ists = [a \in BitAddrs |-> IF a \in 1..4 THEN IstsValues(scadaData)[a] ELSE FALSE]
    /\ slowTicks = 1
    /\ writtenBy = [a \in AllAddrs |-> IF a \in Written THEN 1 ELSE 0]
    /\ lastData = NoData
    /\ out = NoOutput

\* the passes of loop() after calibration, up to WrapEnd
WrapNext ==
    /\ \/ ModbusTask
       \/ HandleClient
       \/ updateSCADAData
       \/ SlowSkip
       \/ updateModbusRegisters
       \/ FastTick
       \/ FastSkip
    /\ now' <= WrapEnd

WrapSpec == WrapInit /\ [][WrapNext]_vars

(***************************************************************************)
(* The same loop with the scheduling the runtime gives it: loop() is       *)
(* called again as soon as it returns, and every call in it returns.       *)
(***************************************************************************)
FairSpec == Spec /\ WF_vars(Next)

\* time a pass needs, at most, to come round to a slow tick and to finish a fast tick
SlowHeadroom == ScadaInterval + 1000
FastHeadroom == sendInterval + 1000 + 500

(***************************************************************************)
(* Properties.                                                             *)
(***************************************************************************)

\* C1: totalEnergyKwh is non-decreasing: no step of the loop (calibration, serve,
\* slow tick, fast tick, uplink) lowers scadaData.total_energy_kwh or the
\* accumulator behind it.
C1_EnergyNonDecreasing ==
    [][/\ scadaData'.total_energy_kwh >= scadaData.total_energy_kwh
       /\ accumulated_energy' >= accumulated_energy]_vars

\* a slow tick has added energy measured at a kilowatt load
C1_Witness == slowTicks >= 2 /\ scadaData.total_energy_kwh > 0

\* C2: once calibrated, no step changes noiseFloor, calibrationSum or
\* calibrationReadings, whatever raw samples are read afterwards.
C2_CalibrationFrozen ==
    [][calibrated =>
          /\ noiseFloor' = noiseFloor
          /\ calibrationSum' = calibrationSum
          /\ calibrationReadings' = calibrationReadings]_vars

\* a fast tick after calibration has read a sample far above the noise floor
C2_Witness == calibrated /\ rawCurrent = 5455 /\ slowTicks >= 2

\* C3: after every fast tick with raw reading r and noise floor n the reported
\* current is 0 when r - n < 0.01 A and r - n otherwise, so it is never negative and
\* never strictly between 0 and 0.01 A; the reported power is current x 220 V,
\* forced to 0 below 1 W.
C3_ThresholdToZero ==
    /\ scadaData.current_rms >= 0
    /\ ~(scadaData.current_rms > 0 /\ scadaData.current_rms < 10)
    /\ rawCurrent # NoSample =>
          /\ scadaData.current_rms =
                IF rawCurrent - noiseFloor < 10 THEN 0 ELSE rawCurrent - noiseFloor
          /\ scadaData.ac_power_kw =
                IF scadaData.current_rms * 220 < 1000 THEN 0
                ELSE scadaData.current_rms * 220

\* a fast tick has read a sample below the noise floor
C3_Witness == rawCurrent # NoSample /\ rawCurrent - noiseFloor < 0

\* C4: two GET /scada/data responses with no slow tick between them are identical
\* in every field, whatever fast ticks ran between them.
C4_SameIntervalSameData ==
    [][(lastData.epoch >= 0 /\ lastData'.epoch = lastData.epoch)
          => lastData'.body = lastData.body]_vars

\* C5: a register read served by mbServer.task() sees a table in which holding
\* registers 30001-30010, coils 1-4 and discrete inputs 1-4 were all written by one
\* execution of updateModbusRegisters (or all still hold their initial values).
C5_NoPartialTable ==
    /\ out.kind = "modbus" => \E g \in 0..slowTicks : out.writers = {g}
    /\ (pc \in {"loop", "http", "slow"}) => Cardinality({writtenBy[a] : a \in Written}) = 1

\* a register read has been served after the second slow tick
C5_Witness == out.kind = "modbus" /\ out.writers = {2}

\* C6: the first slow tick after boot leaves the accumulator and total_energy_kwh
\* unchanged and records the time of the update.
C6_FirstTickAddsNothing ==
    [][(slowTicks = 0 /\ slowTicks' = 1) =>
          /\ accumulated_energy' = accumulated_energy
          /\ scadaData'.total_energy_kwh = scadaData.total_energy_kwh
          /\ last_energy_update = 0
          /\ last_energy_update' = now]_vars

\* the first slow tick has run
C6_Witness == slowTicks = 1 /\ pc = "regs" /\ last_energy_update = now

C9_BoundaryIsZero ==
    (rawCurrent = 50 /\ noiseFloor = 40) => scadaData.current_rms = 0

\* C9: a corrected current equal to the 0.01 A threshold is reported unchanged:
\* raw 0.05 A on a noise floor of 0.04 A is reported as 0.01 A (2.2 W).
C9_BoundaryIsKept ==
    (rawCurrent # NoSample /\ rawCurrent - noiseFloor = 10) =>
        /\ scadaData.current_rms = 10
        /\ scadaData.ac_power_kw = 2200

\* a fast tick has read 0.05 A on a noise floor of 0.04 A
C9_Witness == rawCurrent = 50 /\ noiseFloor = 40


\* C10: every holding register decodes to its snapshot field within the
\* resolution of its scale: register / S differs from the value by less than 1 / S,
\* for power (x1000), energy (x100), frequency (x100), current (x1000), voltage,
\* power factor (x1000), temperature (x10), irradiance and efficiency (x1000).
C10_RoundTrip ==
    pc = "fast" =>
        /\ scadaData.ac_power_kw - hreg[30001] * 1000 \in 0..999
        /\ scadaData.total_energy_kwh - hreg[30002] * 10000 \in 0..9999
        /\ hreg[30003] = scadaData.grid_frequency
        /\ hreg[30004] = scadaData.current_rms
        /\ hreg[30005] = scadaData.voltage
        /\ hreg[30006] = scadaData.power_factor
        /\ hreg[30007] = scadaData.ambient_temp
        /\ hreg[30008] = scadaData.irradiance
        /\ hreg[30009] = scadaData.efficiency


\* C11: the step that ends a slow tick leaves coils 1-4 and discrete inputs 1-4
\* equal to their predicates on the snapshot the tick wrote: online = status is 1,
\* generating = power > 0.1 kW, daylight = irradiance > 100 W/m2, grid OK =
\* 49.5 Hz < frequency < 50.5 Hz, high temperature = temperature > 40 C, low power
\* factor = power factor < 0.9, low efficiency = efficiency < 0.9; whatever the
\* table held before.
C11_FlagsFollowSnapshot ==
    [][(pc = "regs" /\ pc' = "fast") =>
          /\ coil'[1] = (scadaData'.system_status = 1)
          /\ coil'[2] = (scadaData'.ac_power_kw > 100000)
          /\ coil'[3] = (scadaData'.irradiance > 100)
          /\ coil'[4] = (scadaData'.grid_frequency > 4950 /\ scadaData'.grid_frequency < 5050)
          /\ ists'[1] = (scadaData'.ambient_temp > 400)
          /\ ists'[2] = (scadaData'.power_factor < 900)
          /\ ists'[3] = (scadaData'.efficiency < 900)
          /\ scadaData' = scadaData]_vars

\* a slow tick has just set "generating" on a table whose "generating" coil was clear
\* after the first slow tick
C11_Witness ==
    pc = "fast" /\ last_scada_update = now /\ slowTicks >= 2 /\ coil[2]
    /\ scadaData.ac_power_kw > 100000

\* C12: a slow tick at uptime t writes irradiance 0 when the hour of day,
\* ((t / 1000 + 8 h) mod 86400) / 3600, is below 6 or above 18, whatever jitter is
\* drawn, and never writes a negative irradiance.
C12_NightIsDark ==
    pc = "regs" =>
        LET tod == ((scadaData.timestamp \div 1000) + 28800) % 86400
        IN  /\ scadaData.irradiance >= 0
            /\ (tod < 21600 \/ tod > 64800) => scadaData.irradiance = 0

\* a slow tick has run at hour 0 of the simulated day (16 h of uptime)
C12_Witness ==
    pc = "regs" /\ scadaData.timestamp = 57600000 /\ scadaData.irradiance = 0

C14_FailedSendChangesNothing ==
    [][(out'.kind = "post" /\ out'.result # "ok") =>
          LET irms == IF rawCurrent' - noiseFloor < 10 THEN 0 ELSE rawCurrent' - noiseFloor
              watts == IF irms * 220 < 1000 THEN 0 ELSE irms * 220
          IN  /\ scadaData' = [scadaData EXCEPT !.current_rms = irms,
                                                !.voltage = 220,
                                                !.ac_power_kw = watts]
              /\ accumulated_energy' = accumulated_energy
              /\ UNCHANGED <<calibVars, regVars>>
              /\ now' > now
              /\ lastSendTime' = now'
              /\ pc' = "loop"]_vars

\* a fast tick with a non-zero reading has ended without WiFi
C14_Witness ==
    /\ out.kind = "post" /\ out.result = "nowifi"
    /\ lastSendTime = now /\ scadaData.ac_power_kw > 0

\* C15: while calibrated is false nothing has been sent or served and the snapshot
\* and the register table hold their boot values; every pass that leaves
\* calibrated false adds one raw sample to the calibration sum.
C15_SilentCalibration ==
    /\ [](~calibrated =>
            /\ out = NoOutput
            /\ pc \in {"setup", "loop"}
            /\ scadaData = ZeroData
            /\ \A a \in HregAddrs : hreg[a] = 0
            /\ \A a \in BitAddrs : ~coil[a] /\ ~ists[a]
            /\ lastSendTime = 0 /\ slowTicks = 0)
    /\ [][(pc = "loop" /\ ~calibrated /\ ~calibrated') =>
            /\ calibrationReadings' = calibrationReadings + 1
            /\ calibrationSum' > calibrationSum]_vars

\* two samples are in and the window is over, calibrated still false
C15_Witness ==
    ~calibrated /\ calibrationReadings = 2 /\ now - calibrationStart >= 120000

\* C16: a step of mbServer.task() or scadaServer.handleClient(), whatever it
\* serves, changes neither the snapshot nor the accumulator, the calibration state
\* or the tick timestamps; an unknown path is answered 404; and the next pass can
\* serve a request again.
C16_ServingReadsOnly ==
    /\ [][((pc = "loop" /\ calibrated) \/ pc = "http") =>
            /\ UNCHANGED <<scadaData, accumulated_energy, calibVars, tickVars>>
            /\ (out'.kind = "http" /\ out'.route = "/unknown") => out'.status = 404
            /\ (out'.kind = "http" /\ out'.route # "/unknown") => out'.status = 200]_vars
    /\ [](pc = "http" => ENABLED (HandleClient /\ out'.kind = "http" /\ out'.status = 200))

\* an unknown path has been answered after the first slow tick
C16_Witness ==
    out.kind = "http" /\ out.route = "/unknown" /\ out.status = 404 /\ slowTicks >= 1


\* C17: from boot calibration completes and, from every state that leaves the
\* time for it before the end of the modelled run, a further slow tick and a
\* further fast tick follow, whatever the network does, whatever the sends return
\* and whatever is read.
C17_LoopNeverHalts ==
    /\ <>calibrated
    /\ []((calibrated /\ now <= MaxTime - SlowHeadroom) => <>(pc = "regs"))
    /\ []((calibrated /\ now <= MaxTime - FastHeadroom) => <>(out.kind = "post"))

\* what does hold of the loop: once setup() has returned calibration completes and
\* the ticks keep coming, even when every send finds WiFi down and every reading is
\* below the noise floor
LoopRunsOn ==
    /\ [](pc = "loop" => <>calibrated)
    /\ []((calibrated /\ now <= MaxTime - SlowHeadroom) => <>(pc = "regs"))
    /\ []((calibrated /\ now <= MaxTime - FastHeadroom) => <>(out.kind = "post"))


\* C18: a fast tick whose analog read is unavailable leaves the reported current at
\* the last valid sample, and once FaultAfter reads in a row have been unavailable
\* system_status is 2 in the snapshot, in the payload of the tick and, after the
\* next slow tick, in holding register 30010.
C18_FaultAfterFailedReads ==
    /\ [][failedReads' = failedReads + 1 =>
             scadaData'.current_rms = scadaData.current_rms]_vars
    /\ [](failedReads = FaultAfter =>
             /\ scadaData.system_status = 2
             /\ out.kind = "post" => out.payload.system_status = 2
             /\ (pc = "fast" /\ last_scada_update = now) => hreg[30010] = 2)

\* C19: whenever a pass is about to serve its requests, holding registers 30001
\* and 30004 hold the power and the current GET /scada/data returns in that pass,
\* to the register's resolution.
C19_SameSnapshot ==
    (pc = "loop" /\ calibrated) =>
        /\ scadaData.ac_power_kw - hreg[30001] * 1000 \in 0..999
        /\ hreg[30004] = scadaData.current_rms

\* C20: once a slow tick has run, grid_frequency is within 50 +/- 0.1 Hz,
\* power_factor within 0.95 +/- 0.005, efficiency within 0.96 +/- 0.02,
\* ambient_temp between 20 and 40 C and system_status one of 0, 1, 2.
C20_SimulatedInRange ==
    /\ scadaData.system_status \in {0, 1, 2}
    /\ slowTicks >= 1 =>
          /\ scadaData.grid_frequency \in 4990..5010
          /\ scadaData.power_factor \in 945..955
          /\ scadaData.efficiency \in 940..980
          /\ scadaData.ambient_temp \in 200..400

\* a slow tick has just drawn the low end of every range
C20_Witness ==
    /\ pc = "fast" /\ last_scada_update = now /\ slowTicks >= 2
    /\ scadaData.grid_frequency = 4990 /\ scadaData.power_factor = 945
    /\ scadaData.efficiency = 940 /\ scadaData.ambient_temp = 200


\* C21: the body of GET /scada/guardian is computed from the snapshot alone:
\* gross_generation_mwh = total_energy_kwh / 1000, net_export_mwh = 0.98 x gross,
\* emission_reductions_tco2 = 0.81 x net (each to one unit), so that
\* 0 <= emission reductions <= net export <= gross generation.
C21_ReportIsTransform ==
    (out.kind = "http" /\ out.route = "/scada/guardian") =>
        LET g == out.body.gross_generation_mwh
            n == out.body.net_export_mwh
            e == out.body.emission_reductions_tco2
        IN  /\ g = scadaData.total_energy_kwh
            /\ 100 * n <= 98 * g /\ 98 * g < 100 * (n + 1)
            /\ 100 * e <= 81 * n /\ 81 * n < 100 * (e + 1)
            /\ 0 <= e /\ e <= n /\ n <= g

\* the report has been served on a snapshot with energy accumulated
C21_Witness ==
    /\ out.kind = "http" /\ out.route = "/scada/guardian"
    /\ out.body.gross_generation_mwh >= 1667

\* C22: the report's capacity_factor is 100 x power[kW] / 1 kW percent (0.55 kW
\* gives 55.0), and lies in 0..100 while the power is at most 1 kW.
C22_CapacityFactorPercent ==
    (out.kind = "http" /\ out.route = "/scada/guardian") =>
        /\ out.body.capacity_factor * 100 = scadaData.ac_power_kw
        /\ scadaData.ac_power_kw <= 1000000 => out.body.capacity_factor \in 0..10000

\* C23: every voltage served, the voltage field of GET /scada/data and holding
\* register 30005 of a register read, is 220 V.
C23_VoltageIsNominal ==
    /\ (out.kind = "http" /\ out.route = "/scada/data") => out.body.voltage = 220
    /\ out.kind = "modbus" => out.hreg[30005] = 220

\* C24: a slow tick is two consecutive steps, the snapshot write and then the
\* register refresh from that snapshot, with nothing served by or between them;
\* requests are served only by the first two steps of a pass, and the pass after a
\* slow tick begins only once the fast-tick branch has been passed.
C24_WriteBeforeServe ==
    [][/\ slowTicks' # slowTicks =>
            (pc = "slow" /\ pc' = "regs" /\ out' = NoOutput /\ UNCHANGED <<hreg, coil, ists>>)
       /\ pc = "regs" =>
            /\ pc' = "fast" /\ out' = NoOutput /\ scadaData' = scadaData
            /\ \A a \in Written : writtenBy'[a] = slowTicks
       /\ pc = "fast" => pc' = "loop"
       /\ out'.kind \in {"modbus", "http"} =>
            (pc \in {"loop", "http"} /\ pc' \in {"http", "slow"})]_vars

\* the snapshot of the second slow tick has been served over HTTP
C24_Witness ==
    /\ out.kind = "http" /\ out.route = "/scada/data"
    /\ slowTicks >= 2 /\ out.body.timestamp = last_scada_update

\* C25: a slow tick runs only in a pass that finds more than 5000 ms elapsed since
\* the previous slow tick ended, a fast tick only in one that finds more than
\* 1000 ms elapsed since the previous fast tick ended, and a pass goes through the
\* slow-tick branch and then the fast-tick branch once each.
C25_WallClockCadence ==
    [][/\ slowTicks' # slowTicks =>
            /\ pc = "slow"
            /\ now - last_scada_update > 5000
            /\ slowTicks >= 1 => now - scadaData.timestamp > 5000
       /\ pc = "regs" => last_scada_update' = now
       /\ out'.kind = "post" =>
            (pc = "fast" /\ now - lastSendTime > 1000 /\ lastSendTime' = now')
       /\ <<pc, pc'>> \in {<<"setup", "setup">>, <<"setup", "loop">>, <<"loop", "loop">>,
                            <<"loop", "http">>, <<"http", "slow">>, <<"slow", "regs">>,
                            <<"slow", "fast">>, <<"regs", "fast">>, <<"fast", "loop">>}]_vars

\* a second slow tick is under way and a fast tick has run
C25_Witness ==
    pc = "regs" /\ slowTicks >= 2 /\ lastSendTime > 0 /\ now - last_scada_update > 5000

\* C26: a fast tick changes no field of the snapshot but current_rms, voltage and
\* ac_power_kw and no register, coil or discrete input; neither half of a slow tick
\* changes current_rms, voltage or ac_power_kw.
C26_DisjointWrites ==
    [][/\ out'.kind = "post" =>
            /\ scadaData' = [scadaData EXCEPT !.current_rms = scadaData'.current_rms,
                                              !.voltage = scadaData'.voltage,
                                              !.ac_power_kw = scadaData'.ac_power_kw]
            /\ UNCHANGED <<hreg, coil, ists>>
       /\ (slowTicks' # slowTicks \/ pc = "regs") =>
            /\ scadaData'.current_rms = scadaData.current_rms
            /\ scadaData'.voltage = scadaData.voltage
            /\ scadaData'.ac_power_kw = scadaData.ac_power_kw]_vars

\* a fast tick after two slow ticks has changed the current and left register 30004
C26_Witness ==
    /\ out.kind = "post" /\ slowTicks >= 2
    /\ scadaData.current_rms > 0 /\ hreg[30004] # scadaData.current_rms

\* C27: in every state ac_power_kw x 1000 = current_rms x 220; the power is zero
\* exactly when the current is, and a non-zero current is at least 0.01 A, which
\* is 2.2 W, above the 1 W threshold.
C27_PowerIsCurrentTimesVoltage ==
    /\ scadaData.ac_power_kw = scadaData.current_rms * 220
    /\ (scadaData.ac_power_kw = 0) <=> (scadaData.current_rms = 0)
    /\ scadaData.current_rms > 0 =>
          (scadaData.current_rms >= 10 /\ scadaData.ac_power_kw >= 2200)

\* a fast tick has reported the smallest non-zero current
C27_Witness ==
    out.kind = "post" /\ scadaData.current_rms = 10 /\ scadaData.ac_power_kw = 2200

\* C28: in the pass that follows calibration both ticks are due and no reading has
\* been taken; every payload is built after at least one slow tick, carries
\* system_status 1 and the total_energy_kwh the snapshot had before the tick's own
\* measurement, which the tick does not change.
C28_SlowTickFirst ==
    /\ []((calibrated /\ slowTicks = 0 /\ pc \in {"loop", "http", "slow"}) =>
            /\ now - last_scada_update > 5000
            /\ now - lastSendTime > 1000
            /\ rawCurrent = NoSample)
    /\ [][out'.kind = "post" =>
            /\ slowTicks >= 1
            /\ out'.payload.system_status = 1
            /\ out'.payload.total_energy_kwh = (scadaData.total_energy_kwh + 500) \div 1000
            /\ scadaData'.total_energy_kwh = scadaData.total_energy_kwh]_vars

\* the first uplink: one slow tick has run, and the payload carries status 1
C28_Witness ==
    /\ out.kind = "post" /\ slowTicks = 1
    /\ out.payload.system_status = 1 /\ out.payload.total_energy_kwh = 0

\* C29: discrete inputs 1-4 are false in every state, in the table and in every
\* register read served: once a slow tick has run the temperature is at most 40 C
\* and the power factor and the efficiency are at least 0.9.
C29_NoAlarm ==
    /\ \A a \in 1..4 : ~ists[a]
    /\ out.kind = "modbus" => \A a \in 1..4 : ~out.ists[a]
    /\ slowTicks >= 1 =>
          /\ scadaData.ambient_temp <= 400
          /\ scadaData.power_factor >= 900
          /\ scadaData.efficiency >= 900

\* a slow tick has just drawn the highest temperature and left the alarm clear
C29_Witness ==
    /\ pc = "fast" /\ last_scada_update = now
    /\ scadaData.ambient_temp = 399 /\ ~ists[1]


\* C30: through the wrap-around of the counter a slow tick runs exactly in the
\* passes that find more than 5000 ms truly elapsed since the last one, a fast
\* tick exactly in those that find more than 1000 ms since the last one, every
\* slow tick adds power x true elapsed time / 3600000 kWh (to one unit), and
\* total_energy_kwh never decreases.
C30_WrapKeepsTime ==
    [][/\ slowTicks' # slowTicks =>
            LET d == scadaData'.total_energy_kwh - scadaData.total_energy_kwh
                x == (scadaData.ac_power_kw \div 20) * (now - last_scada_update)
            IN  /\ now - last_scada_update > 5000
                /\ 180000 * d <= x
                /\ x < 180000 * (d + 1)
       /\ (pc = "slow" /\ now - last_scada_update > 5000) => slowTicks' = slowTicks + 1
       /\ out'.kind = "post" => now - lastSendTime > 1000
       /\ (pc = "fast" /\ now - lastSendTime > 1000) => out'.kind = "post"
       /\ scadaData'.total_energy_kwh >= scadaData.total_energy_kwh]_vars

\* what does hold through the wrap-around: the due-checks and the monotonicity
WrapKeepsCadence ==
    [][/\ slowTicks' # slowTicks => now - last_scada_update > 5000
       /\ (pc = "slow" /\ now - last_scada_update > 5000) => slowTicks' = slowTicks + 1
       /\ out'.kind = "post" => now - lastSendTime > 1000
       /\ (pc = "fast" /\ now - lastSendTime > 1000) => out'.kind = "post"
       /\ scadaData'.total_energy_kwh >= scadaData.total_energy_kwh]_vars

====
